---- MODULE Spec2Model ----
(***************************************************************************)
(* Material-chain core of src/sde.py: the quantity adjuster (apply_me),    *)
(* the catalog lookups of class SDE, the recursive chain resolver          *)
(* (resolve_material_chain), the tree flattener (flatten_material_tree)    *)
(* and the chain summarizer (get_chain_summary).                           *)
(*                                                                         *)
(* Conventions of the model                                                *)
(*  - Python's None is 0 for an activity id or a blueprint id, and NoSource*)
(*    for a recipe source; flatten's buy_set=None is the value NoBuySet.   *)
(*  - Display strings (name, activity_name) are a function of the type id  *)
(*    or of the activity id and are left out of the node records.          *)
(*  - Percentages are integers; the product computed by apply_me is kept   *)
(*    exactly, in units of 1/10000.  Python computes it in binary floating *)
(*    point; the only place where the float differs observably from the    *)
(*    exact value is a product that lies exactly half way between two      *)
(*    hundredths, where round(x, 2) goes up or down depending on the       *)
(*    float's noise.  fpTie is that direction (0 down, 1 up).              *)
(*  - A table is a sequence of rows in rowid order.  ORDER BY quantity DESC*)
(*    is modelled as a stable sort of the matching rows.                   *)
(***************************************************************************)
EXTENDS Integers, Sequences, FiniteSets, TLC

VARIABLES
    fpTie,      \* direction in which round(x, 2) resolves an exact half-way product
    adj,        \* one call of apply_me: its arguments, position and return value
    calc,       \* one call of calculate_materials: arguments, position, returned list
    look,       \* one use of the two source lookups: requested ids, position, answers
    catalog,    \* the SDE database: [mats |-> rows, prods |-> rows], read-only
    pc,         \* per caller: "off", "idle", "run", "done", "failed"
    args,       \* per caller: the arguments of its top-level resolve_material_chain call
    stack,      \* per caller: the call stack of resolve_material_chain frames
    cache,      \* per caller: the _cache dict of the running top-level call
    result,     \* per caller: the forest its latest top-level call returned, if it has
    lookups,    \* per caller: the type_ids lists handed to get_materials_by_type_ids so far
    failure,    \* per caller: the error a catalog call raised, and the one its call ended with
    ncalls,     \* per caller: the top-level calls it has started so far
    tree,       \* the forest handed to flatten_material_tree / get_chain_summary
    buy,        \* the buy_set handed to flatten_material_tree
    flat,       \* the list flatten_material_tree returned
    summary,    \* the dict get_chain_summary returned
    tpc         \* position of the tree consumer: "tree", "flat", "sum", "both"

adjVars  == <<adj, calc, look>>
resVars  == <<catalog, pc, args, stack, cache, result, lookups, failure, ncalls>>
treeVars == <<tree, buy, flat, summary, tpc>>
vars     == <<fpTie, adj, calc, look, catalog, pc, args, stack, cache, result, lookups,
              failure, ncalls, tree, buy, flat, summary, tpc>>

----------------------------------------------------------------------------
(* Program constants *)

ACTIVITY_MANUFACTURING == 1
ACTIVITY_REACTIONS == 9

(* Bounds of the model *)

MaxBase == 5          \* base per-run quantities -1..MaxBase (and 100) for apply_me
MaxRuns == 3          \* run counts up to MaxRuns
MaxDepthArg == 2      \* max_depth arguments 0..MaxDepthArg
MaxNodes == 3         \* forests of at most MaxNodes nodes for flatten / summary
MaxCalls == 2         \* top-level calls one caller makes in a row
MaxProdRows == 2      \* industryActivityProducts tables of at most MaxProdRows rows for the lookups
MaxIds == 2           \* type_ids lists of at most MaxIds ids for the batch lookup

----------------------------------------------------------------------------
(* Arithmetic helpers *)

Max(a, b) == IF a >= b THEN a ELSE b

\* math.ceil(n / d) for d > 0
CeilDiv(n, d) == -((-n) \div d)

RECURSIVE SumSeq(_)
SumSeq(s) == IF s = <<>> THEN 0 ELSE Head(s) + SumSeq(Tail(s))

----------------------------------------------------------------------------
(* apply_me, src/sde.py 327-360 *)

\* A slip that would add the efficiency percentage instead of taking it off.
MeProductMarkup(base_quantity, me_level, runs, structure_bonus) ==
    runs * base_quantity * (100 + me_level) * (100 - structure_bonus)

\* runs * base_quantity * (1 - me_level/100) * (1 - structure_bonus/100), in 1/10000
MeProduct(base_quantity, me_level, runs, structure_bonus) ==
    runs * base_quantity * (100 - me_level) * (100 - structure_bonus)

\* round(adjusted, 2), in hundredths; n is the product in 1/10000
Round2(n) ==
    LET q == n \div 100
        r == n % 100
    IN  IF r > 50 \/ (r = 50 /\ fpTie = 1) THEN q + 1 ELSE q

\* A slip that would take the ceiling of the unrounded product.
apply_me_noround(base_quantity, me_level, runs, structure_bonus) ==
    IF base_quantity <= 0 THEN 0
    ELSE Max(runs, CeilDiv(MeProduct(base_quantity, me_level, runs, structure_bonus), 10000))

apply_me(base_quantity, me_level, runs, structure_bonus) ==
    IF base_quantity <= 0 THEN 0
    ELSE Max(runs,
             CeilDiv(Round2(MeProduct(base_quantity, me_level, runs, structure_bonus)), 100))

----------------------------------------------------------------------------
(* The catalog: class SDE, src/sde.py 170-320 *)

\* One row of industryActivityMaterials / industryActivityProducts
MatRow(bp, act, mat, q) == [typeID |-> bp, activityID |-> act, materialTypeID |-> mat, quantity |-> q]
ProdRow(bp, act, prod, q) == [typeID |-> bp, activityID |-> act, productTypeID |-> prod, quantity |-> q]

\* ORDER BY quantity DESC: x goes after every row already placed whose quantity is >= its own
RECURSIVE InsertDesc(_, _)
InsertDesc(sorted, x) ==
    IF sorted = <<>> THEN <<x>>
    ELSE IF Head(sorted).quantity >= x.quantity
         THEN <<Head(sorted)>> \o InsertDesc(Tail(sorted), x)
         ELSE <<x>> \o sorted

RECURSIVE OrderByQuantityDesc(_)
OrderByQuantityDesc(rows) ==
    IF rows = <<>> THEN <<>>
    ELSE InsertDesc(OrderByQuantityDesc(SubSeq(rows, 1, Len(rows) - 1)), rows[Len(rows)])

\* SDE.get_activity_materials: list of {type_id, quantity}
get_activity_materials(blueprint_type_id, activity_id) ==
    LET Match(r) == r.typeID = blueprint_type_id /\ r.activityID = activity_id
        rows == OrderByQuantityDesc(SelectSeq(catalog.mats, Match))
    IN  [i \in 1 .. Len(rows) |->
            [type_id |-> rows[i].materialTypeID, quantity |-> rows[i].quantity]]

\* SDE.get_manufacturing_materials: the same query with activityID = 1
get_manufacturing_materials(blueprint_type_id) ==
    LET Match(r) == r.typeID = blueprint_type_id /\ r.activityID = 1
        rows == OrderByQuantityDesc(SelectSeq(catalog.mats, Match))
    IN  [i \in 1 .. Len(rows) |->
            [type_id |-> rows[i].materialTypeID, quantity |-> rows[i].quantity]]

\* for row in rows: result[row["productTypeID"]] = {...}  (a later row overwrites)
RECURSIVE AssignSources(_, _, _, _)
AssignSources(rows, res, activity_id, ids) ==
    IF rows = <<>> THEN res
    ELSE LET row == Head(rows)
             hit == row.activityID = activity_id /\ row.productTypeID \in ids
             nxt == IF hit
                    THEN [res EXCEPT ![row.productTypeID] =
                              [blueprint_type_id |-> row.typeID,
                               activity_id |-> activity_id,
                               quantity_per_run |-> row.quantity]]
                    ELSE res
         IN  AssignSources(Tail(rows), nxt, activity_id, ids)

\* A slip that would run the reaction query for every requested id, found or not.
get_materials_by_type_ids_reactions_over(type_ids) ==
    LET ids == {type_ids[i] : i \in 1 .. Len(type_ids)}
        none == [tid \in ids |-> [blueprint_type_id |-> 0, activity_id |-> 0,
                                  quantity_per_run |-> 0]]
        mfg == AssignSources(catalog.prods, none, ACTIVITY_MANUFACTURING, ids)
    IN  IF type_ids = <<>> THEN <<>>
        ELSE AssignSources(catalog.prods, mfg, ACTIVITY_REACTIONS, ids)

\* SDE.get_materials_by_type_ids: dict type_id -> source or None
get_materials_by_type_ids(type_ids) ==
    LET ids == {type_ids[i] : i \in 1 .. Len(type_ids)}
        none == [tid \in ids |-> [blueprint_type_id |-> 0, activity_id |-> 0,
                                  quantity_per_run |-> 0]]
        mfg == AssignSources(catalog.prods, none, ACTIVITY_MANUFACTURING, ids)
        remaining_ids == {tid \in ids : mfg[tid].activity_id = 0}
    IN  IF type_ids = <<>> THEN <<>>
        ELSE AssignSources(catalog.prods, mfg, ACTIVITY_REACTIONS, remaining_ids)

----------------------------------------------------------------------------
(* Values the variables of an unused component rest at *)

Callers == {1, 2}
NoSource == [blueprint_type_id |-> 0, activity_id |-> 0, quantity_per_run |-> 0]
NoBuySet == {0}
EmptyCatalog == [mats |-> <<>>, prods |-> <<>>]
NoArgs == [blueprint_type_id |-> 0, me_level |-> 0, runs |-> 0, structure_bonus |-> 0,
           sub_me |-> 0, resolve_reactions |-> FALSE, max_depth |-> 0]
NoFailure == [raised |-> "", surfaced |-> ""]
NoSummary == [max_depth |-> 0, total_intermediate_types |-> 0,
              total_terminal_types |-> 0, intermediates |-> <<>>, terminal_ids |-> {}]

NoCalc == [bp |-> 0, me |-> 0, runs |-> 0, sb |-> 0, pc |-> "off", out |-> <<>>]
NoAdj == [base |-> 0, me |-> 0, runs |-> 0, sb |-> 0, pc |-> "off", out |-> 0]

NoLook == [item |-> 0, ids |-> <<>>, pc |-> "off", one |-> NoSource, batch |-> <<>>]

AdjQuiet == adj = NoAdj /\ calc = NoCalc /\ look = NoLook

ResQuiet ==
    /\ catalog = EmptyCatalog
    /\ pc = [c \in Callers |-> "off"]
    /\ args = [c \in Callers |-> NoArgs]
    /\ stack = [c \in Callers |-> <<>>]
    /\ cache = [c \in Callers |-> <<>>]
    /\ result = [c \in Callers |-> <<>>]
    /\ lookups = [c \in Callers |-> <<>>]
    /\ failure = [c \in Callers |-> NoFailure]
    /\ ncalls = [c \in Callers |-> 0]

TreeQuiet ==
    /\ tree = <<>>
    /\ buy = NoBuySet
    /\ flat = <<>>
    /\ summary = NoSummary
    /\ tpc = "off"

----------------------------------------------------------------------------
(* resolve_material_chain, src/sde.py 411-543, one frame per (recursive) call *)

MaterialNode(type_id, quantity_needed, activity_id, blueprint_type_id, me_level, is_terminal, depth, children) ==
    [type_id |-> type_id, quantity_needed |-> quantity_needed,
     activity_id |-> activity_id, blueprint_type_id |-> blueprint_type_id,
     me_level |-> me_level, is_terminal |-> is_terminal, depth |-> depth,
     children |-> children]

\* A slip that would number the levels from 1.
NewFrameFromOne(blueprint_type_id, me_level, runs, depth) ==
    [bp |-> blueprint_type_id, me |-> me_level, runs |-> runs, depth |-> depth + 1,
     pc |-> "enter", mats |-> <<>>, pre |-> <<>>, i |-> 0, nodes |-> <<>>,
     source |-> NoSource]

\* The frame of a call that has just been entered: its parameters, no locals yet.
\* pc: "enter" (line 439), "lookup" (line 475), "loop" (line 480)
NewFrame(blueprint_type_id, me_level, runs, depth) ==
    [bp |-> blueprint_type_id, me |-> me_level, runs |-> runs, depth |-> depth,
     pc |-> "enter", mats |-> <<>>, pre |-> <<>>, i |-> 0, nodes |-> <<>>,
     source |-> NoSource]

Top(c) == stack[c][Len(stack[c])]

\* A guard that would fire one level too late.
DepthExceededLate(depth, max_depth) == depth > max_depth + 1

\* line 442: if _depth > max_depth
DepthExceeded(depth, max_depth) == depth > max_depth

\* lines 442-454: the nodes the depth guard returns
GuardNodes(f, structure_bonus) ==
    LET base_mats == get_manufacturing_materials(f.bp)
    IN  [k \in 1 .. Len(base_mats) |->
            MaterialNode(base_mats[k].type_id,
                         apply_me(base_mats[k].quantity, f.me, f.runs, structure_bonus),
                         0, 0, f.me, TRUE, f.depth, <<>>)]

\* A slip that would merge the rows of a repeated input item into the first one.
AdjustedMatsMerged(f, structure_bonus) ==
    LET reaction_mats == get_activity_materials(f.bp, ACTIVITY_REACTIONS)
        base_mats == get_manufacturing_materials(f.bp)
        all == IF reaction_mats # <<>>
               THEN [k \in 1 .. Len(reaction_mats) |->
                        [type_id |-> reaction_mats[k].type_id,
                         adjusted_quantity |-> reaction_mats[k].quantity * f.runs]]
               ELSE [k \in 1 .. Len(base_mats) |->
                        [type_id |-> base_mats[k].type_id,
                         adjusted_quantity |->
                             apply_me(base_mats[k].quantity, f.me, f.runs, structure_bonus)]]
        first == { k \in 1 .. Len(all) :
                     \A j \in 1 .. (k - 1) : all[j].type_id # all[k].type_id }
    IN  [i \in 1 .. Cardinality(first) |->
            all[CHOOSE k \in first : Cardinality({ j \in first : j < k }) = i - 1]]

\* lines 456-473: adjusted_mats
AdjustedMats(f, structure_bonus) ==
    LET reaction_mats == get_activity_materials(f.bp, ACTIVITY_REACTIONS)
        base_mats == get_manufacturing_materials(f.bp)
    IN  IF reaction_mats # <<>>
        THEN [k \in 1 .. Len(reaction_mats) |->
                 [type_id |-> reaction_mats[k].type_id,
                  adjusted_quantity |-> reaction_mats[k].quantity * f.runs]]
        ELSE [k \in 1 .. Len(base_mats) |->
                 [type_id |-> base_mats[k].type_id,
                  adjusted_quantity |->
                      apply_me(base_mats[k].quantity, f.me, f.runs, structure_bonus)]]

\* A slip that would let all callers fill and read one dict.
CacheAfterShared(c, f) ==
    LET tid == f.mats[f.i].type_id
        shared == cache[1] @@ cache[2]
    IN  IF tid \in DOMAIN shared THEN shared ELSE shared @@ (tid :> f.pre[tid])

\* A slip that would store the source of the level's first input for every item.
CacheAfterFirstInput(c, f) ==
    LET tid == f.mats[f.i].type_id
    IN  IF tid \in DOMAIN cache[c] THEN cache[c]
        ELSE cache[c] @@ (tid :> f.pre[f.mats[1].type_id])

\* lines 485-486: if tid not in _cache: _cache[tid] = pre_fetched_materials[tid]
CacheAfter(c, f) ==
    LET tid == f.mats[f.i].type_id
    IN  IF tid \in DOMAIN cache[c] THEN cache[c] ELSE cache[c] @@ (tid :> f.pre[tid])

\* A slip that would round the number of sub-runs down.
SubRunsFloor(qty, qty_per_run) == qty \div qty_per_run

\* line 515: sub_runs = math.ceil(qty / qty_per_run)
SubRuns(qty, qty_per_run) == CeilDiv(qty, qty_per_run)

\* line 518: effective_me
EffectiveMe(sub_activity, sub_me) ==
    IF sub_activity = ACTIVITY_REACTIONS THEN 0 ELSE sub_me

\* the call at the top of c's stack returns nodes: to the caller of resolve, or to
\* the frame below, which appends its non-terminal node (lines 532-541)
ReturnNodes(c, nodes) ==
    LET n == Len(stack[c])
    IN  IF n = 1
        THEN /\ stack' = [stack EXCEPT ![c] = <<>>]
             /\ result' = [result EXCEPT ![c] = nodes]
             /\ pc' = [pc EXCEPT ![c] = "done"]
        ELSE LET parent == stack[c][n - 1]
                 mat == parent.mats[parent.i]
                 node == MaterialNode(mat.type_id, mat.adjusted_quantity,
                                      parent.source.activity_id,
                                      parent.source.blueprint_type_id,
                                      EffectiveMe(parent.source.activity_id, args[c].sub_me),
                                      FALSE, parent.depth, nodes)
                 back == [parent EXCEPT !.nodes = Append(parent.nodes, node),
                                        !.i = parent.i + 1]
             IN  /\ stack' = [stack EXCEPT ![c] = Append(SubSeq(stack[c], 1, n - 2), back)]
                 /\ UNCHANGED <<result, pc>>

\* the arguments a caller may pass; runs is any int, a caller's slip included
RootIds ==
    {catalog.mats[k].typeID : k \in 1 .. Len(catalog.mats)}
        \cup {catalog.prods[k].typeID : k \in 1 .. Len(catalog.prods)} \cup {99}

ArgSpace ==
    [blueprint_type_id : RootIds, me_level : {0, 5}, runs : (-1) .. MaxRuns,
     structure_bonus : {0, 10}, sub_me : {0, 10}, resolve_reactions : BOOLEAN,
     max_depth : 0 .. MaxDepthArg]

\* A slip that would keep one _cache dict for all calls (a mutable default).
FreshCacheKept(c) == cache[c]

\* lines 439-440: _cache is None in a top-level call, which makes a new dict
FreshCache(c) == <<>>

\* a top-level call is entered: lines 411-440, _depth = 0 and a fresh _cache
StartCall(c, space) ==
    /\ \E a \in space :
          /\ args' = [args EXCEPT ![c] = a]
          /\ stack' = [stack EXCEPT ![c] =
                          <<NewFrame(a.blueprint_type_id, a.me_level, a.runs, 0)>>]
    /\ cache' = [cache EXCEPT ![c] = FreshCache(c)]
    /\ lookups' = [lookups EXCEPT ![c] = <<>>]
    /\ result' = [result EXCEPT ![c] = <<>>]
    /\ failure' = [failure EXCEPT ![c] = NoFailure]
    /\ ncalls' = [ncalls EXCEPT ![c] = @ + 1]
    /\ pc' = [pc EXCEPT ![c] = "run"]
    /\ UNCHANGED <<fpTie, adjVars, catalog, treeVars>>

\* the caller's first call
Call(c) ==
    /\ pc[c] = "idle"
    /\ StartCall(c, ArgSpace)

\* lines 442-454
GuardReturn(c) ==
    /\ pc[c] = "run"
    /\ Top(c).pc = "enter"
    /\ DepthExceeded(Top(c).depth, args[c].max_depth)
    /\ ReturnNodes(c, GuardNodes(Top(c), args[c].structure_bonus))
    /\ UNCHANGED <<fpTie, adjVars, catalog, args, cache, lookups, failure, ncalls, treeVars>>

\* lines 456-473
FetchMaterials(c) ==
    /\ pc[c] = "run"
    /\ Top(c).pc = "enter"
    /\ ~DepthExceeded(Top(c).depth, args[c].max_depth)
    /\ stack' = [stack EXCEPT ![c][Len(stack[c])] =
                    [@ EXCEPT !.pc = "lookup",
                              !.mats = AdjustedMats(Top(c), args[c].structure_bonus)]]
    /\ UNCHANGED <<fpTie, adjVars, catalog, pc, args, cache, result, lookups, failure, ncalls, treeVars>>

\* lines 475-478
BatchLookup(c) ==
    /\ pc[c] = "run"
    /\ Top(c).pc = "lookup"
    /\ LET type_ids == [k \in 1 .. Len(Top(c).mats) |-> Top(c).mats[k].type_id]
       IN  /\ stack' = [stack EXCEPT ![c][Len(stack[c])] =
                           [@ EXCEPT !.pc = "loop", !.i = 1,
                                     !.pre = get_materials_by_type_ids(type_ids)]]
           /\ lookups' = [lookups EXCEPT ![c] = Append(@, type_ids)]
    /\ UNCHANGED <<fpTie, adjVars, catalog, pc, args, cache, result, failure, ncalls, treeVars>>

\* A slip that would leave the node of a raw material unmarked.
TerminalNodeUnmarked(mat, depth) ==
    MaterialNode(mat.type_id, mat.adjusted_quantity, 0, 0, 0, FALSE, depth, <<>>)

\* lines 491-497: the node of a raw material
TerminalNode(mat, depth) ==
    MaterialNode(mat.type_id, mat.adjusted_quantity, 0, 0, 0, TRUE, depth, <<>>)

\* A slip that would drop the recipe id and kind of a declined reaction.
DeclinedReactionNodeBare(mat, source, depth) ==
    MaterialNode(mat.type_id, mat.adjusted_quantity, 0, 0, 0, TRUE, depth, <<>>)

\* lines 500-507: the node of a reaction product the caller declined to resolve
DeclinedReactionNode(mat, source, depth) ==
    MaterialNode(mat.type_id, mat.adjusted_quantity, ACTIVITY_REACTIONS,
                 source.blueprint_type_id, 0, TRUE, depth, <<>>)

InLoop(c) ==
    /\ pc[c] = "run"
    /\ Top(c).pc = "loop"
    /\ Top(c).i <= Len(Top(c).mats)

\* one iteration, lines 480-497: no source
EmitTerminal(c) ==
    /\ InLoop(c)
    /\ LET f == Top(c)
           mat == f.mats[f.i]
           source == CacheAfter(c, f)[mat.type_id]
       IN  /\ source = NoSource
           /\ cache' = [cache EXCEPT ![c] = CacheAfter(c, f)]
           /\ stack' = [stack EXCEPT ![c][Len(stack[c])] =
                  [@ EXCEPT !.i = f.i + 1,
                            !.nodes = Append(f.nodes, TerminalNode(mat, f.depth))]]
    /\ UNCHANGED <<fpTie, adjVars, catalog, pc, args, result, lookups, failure, ncalls, treeVars>>

\* one iteration, lines 480-488 and 498-507: a reaction the caller declined to resolve
EmitDeclinedReaction(c) ==
    /\ InLoop(c)
    /\ LET f == Top(c)
           mat == f.mats[f.i]
           source == CacheAfter(c, f)[mat.type_id]
       IN  /\ source # NoSource
           /\ source.activity_id = ACTIVITY_REACTIONS
           /\ ~args[c].resolve_reactions
           /\ cache' = [cache EXCEPT ![c] = CacheAfter(c, f)]
           /\ stack' = [stack EXCEPT ![c][Len(stack[c])] =
                  [@ EXCEPT !.i = f.i + 1,
                            !.nodes = Append(f.nodes,
                                             DeclinedReactionNode(mat, source, f.depth))]]
    /\ UNCHANGED <<fpTie, adjVars, catalog, pc, args, result, lookups, failure, ncalls, treeVars>>

\* one iteration, lines 480-488 and 508-530: the recursive call is entered
Recurse(c) ==
    /\ InLoop(c)
    /\ LET f == Top(c)
           mat == f.mats[f.i]
           source == CacheAfter(c, f)[mat.type_id]
           sub_runs == SubRuns(mat.adjusted_quantity, source.quantity_per_run)
           effective_me == EffectiveMe(source.activity_id, args[c].sub_me)
       IN  /\ source # NoSource
           /\ ~(source.activity_id = ACTIVITY_REACTIONS /\ ~args[c].resolve_reactions)
           /\ cache' = [cache EXCEPT ![c] = CacheAfter(c, f)]
           /\ stack' = [stack EXCEPT ![c] =
                  Append([@ EXCEPT ![Len(@)] = [f EXCEPT !.source = source]],
                         NewFrame(source.blueprint_type_id, effective_me, sub_runs,
                                  f.depth + 1))]
    /\ UNCHANGED <<fpTie, adjVars, catalog, pc, args, result, lookups, failure, ncalls, treeVars>>

\* line 543: return nodes
Return(c) ==
    /\ pc[c] = "run"
    /\ Top(c).pc = "loop"
    /\ Top(c).i > Len(Top(c).mats)
    /\ ReturnNodes(c, Top(c).nodes)
    /\ UNCHANGED <<fpTie, adjVars, catalog, args, cache, lookups, failure, ncalls, treeVars>>

\* Catalogs.  Types: 1 X, 2 Y (raw), 3 A, 4 B, 5 F, 6 R (raw), 7 G, 8 H.
\* CatChain: blueprint 10 needs X; blueprint 11 makes 3 X per run from Y;
\* blueprint 22 needs H; blueprint 20 makes H from F and Y;
\* formula 15 makes 2 F per run from R and X.
CatChain ==
    [mats |-> << MatRow(10, 1, 1, 10), MatRow(11, 1, 2, 7),
                 MatRow(22, 1, 8, 2),
                 MatRow(20, 1, 5, 5), MatRow(20, 1, 2, 1),
                 MatRow(15, 9, 6, 3), MatRow(15, 9, 1, 4) >>,
     prods |-> << ProdRow(11, 1, 1, 3), ProdRow(20, 1, 8, 1), ProdRow(15, 9, 5, 2) >>]

\* CatCycle: A (blueprint 13) needs B and Y, B (blueprint 14) needs A.
CatCycle ==
    [mats |-> << MatRow(13, 1, 4, 2), MatRow(13, 1, 2, 3), MatRow(14, 1, 3, 1) >>,
     prods |-> << ProdRow(13, 1, 3, 1), ProdRow(14, 1, 4, 1) >>]

\* CatBoth: blueprint 16 makes G and has manufacturing and reaction materials;
\* blueprint 30 needs G and F; formula 15 makes F from R.
CatBoth ==
    [mats |-> << MatRow(30, 1, 7, 3), MatRow(30, 1, 5, 2),
                 MatRow(16, 1, 2, 4), MatRow(16, 9, 6, 2),
                 MatRow(15, 9, 6, 3) >>,
     prods |-> << ProdRow(16, 1, 7, 1), ProdRow(15, 9, 5, 2) >>]

Catalogs == {CatChain, CatCycle, CatBoth}

Init ==
    /\ fpTie \in {0, 1}
    /\ AdjQuiet
    /\ catalog \in Catalogs
    /\ pc = [c \in Callers |-> IF c = 1 THEN "idle" ELSE "off"]
    /\ args = [c \in Callers |-> NoArgs]
    /\ stack = [c \in Callers |-> <<>>]
    /\ cache = [c \in Callers |-> <<>>]
    /\ result = [c \in Callers |-> <<>>]
    /\ lookups = [c \in Callers |-> <<>>]
    /\ failure = [c \in Callers |-> NoFailure]
    /\ ncalls = [c \in Callers |-> 0]
    /\ TreeQuiet

Next ==
    \E c \in Callers :
        \/ Call(c)
        \/ GuardReturn(c)
        \/ FetchMaterials(c)
        \/ BatchLookup(c)
        \/ EmitTerminal(c)
        \/ EmitDeclinedReaction(c)
        \/ Recurse(c)
        \/ Return(c)

Spec == Init /\ [][Next]_vars

\* a call in progress is never suspended for ever: the interpreter runs it to its end
LiveSpec == Spec /\ WF_vars(Next)

----------------------------------------------------------------------------
(* A catalog call that raises: conn.execute fails with an sqlite3 error.   *)
(* resolve_material_chain has no try, so the error leaves every frame.     *)

CatalogErrors == {"OperationalError", "DatabaseError"}

\* A slip that would catch the error and return an empty forest.
RaiseSwallowed(c, err) ==
    /\ stack' = [stack EXCEPT ![c] = <<>>]
    /\ result' = [result EXCEPT ![c] = <<>>]
    /\ failure' = [failure EXCEPT ![c] = [raised |-> err, surfaced |-> ""]]
    /\ pc' = [pc EXCEPT ![c] = "done"]

\* lines 411-543 without a handler: the error ends the top-level call as it is
Raise(c, err) ==
    /\ stack' = [stack EXCEPT ![c] = <<>>]
    /\ result' = [result EXCEPT ![c] = <<>>]
    /\ failure' = [failure EXCEPT ![c] = [raised |-> err, surfaced |-> err]]
    /\ pc' = [pc EXCEPT ![c] = "failed"]

\* the query of line 444, 458, 466 or 478 fails (an empty type_ids list is
\* answered without a query, line 276)
CatalogError(c) ==
    /\ pc[c] = "run"
    /\ \/ Top(c).pc = "enter"
       \/ Top(c).pc = "lookup" /\ Top(c).mats # <<>>
    /\ \E err \in CatalogErrors : Raise(c, err)
    /\ lookups' = [lookups EXCEPT ![c] =
                      IF Top(c).pc = "lookup"
                      THEN Append(@, [k \in 1 .. Len(Top(c).mats) |-> Top(c).mats[k].type_id])
                      ELSE @]
    /\ UNCHANGED <<fpTie, adjVars, catalog, args, cache, ncalls, treeVars>>

FailNext == Next \/ \E c \in Callers : CatalogError(c)

SpecFail == Init /\ [][FailNext]_vars

----------------------------------------------------------------------------
(* Callers that make several top-level calls: one after the other, or two *)
(* callers at the same time.  Their calls differ in root and efficiency.   *)

SmallArgSpace ==
    [blueprint_type_id : RootIds, me_level : {0, 5}, runs : {2},
     structure_bonus : {0}, sub_me : {10}, resolve_reactions : BOOLEAN,
     max_depth : {MaxDepthArg}]

\* one step of the call in progress, lines 442-543
RunStep(c) ==
    \/ GuardReturn(c)
    \/ FetchMaterials(c)
    \/ BatchLookup(c)
    \/ EmitTerminal(c)
    \/ EmitDeclinedReaction(c)
    \/ Recurse(c)
    \/ Return(c)

\* a call of a caller that has none in progress: its first, or its next
CallSeq(c) ==
    /\ pc[c] \in {"idle", "done"}
    /\ ncalls[c] < MaxCalls
    /\ StartCall(c, SmallArgSpace)

SeqNext == \E c \in Callers : CallSeq(c) \/ RunStep(c)

SpecSeq == Init /\ [][SeqNext]_vars

\* two callers, each with one call, their steps interleaved in any way
ConcInit ==
    /\ fpTie \in {0, 1}
    /\ AdjQuiet
    /\ catalog \in Catalogs
    /\ pc = [c \in Callers |-> "idle"]
    /\ args = [c \in Callers |-> NoArgs]
    /\ stack = [c \in Callers |-> <<>>]
    /\ cache = [c \in Callers |-> <<>>]
    /\ result = [c \in Callers |-> <<>>]
    /\ lookups = [c \in Callers |-> <<>>]
    /\ failure = [c \in Callers |-> NoFailure]
    /\ ncalls = [c \in Callers |-> 0]
    /\ TreeQuiet

CallConc(c) ==
    /\ pc[c] = "idle"
    /\ StartCall(c, SmallArgSpace)

ConcNext == \E c \in Callers : CallConc(c) \/ RunStep(c)

SpecConc == ConcInit /\ [][ConcNext]_vars

----------------------------------------------------------------------------
(* The quantity adjuster on its own: one call of apply_me per behaviour *)

BaseDomain == (-1 .. MaxBase) \cup {100}
RunsDomain == -1 .. MaxRuns
MeDomain == 0 .. 10
BonusDomain == 0 .. 100

AdjInit ==
    /\ fpTie \in {0, 1}
    /\ adj \in [base : BaseDomain, me : MeDomain, runs : RunsDomain, sb : BonusDomain,
                pc : {"call"}, out : {0}]
    /\ calc = NoCalc
    /\ look = NoLook
    /\ ResQuiet
    /\ TreeQuiet

AdjustQuantity ==
    /\ adj.pc = "call"
    /\ adj' = [adj EXCEPT !.pc = "ret",
                          !.out = apply_me(adj.base, adj.me, adj.runs, adj.sb)]
    /\ UNCHANGED <<fpTie, calc, look, resVars, treeVars>>

AdjNext == AdjustQuantity

SpecAdjust == AdjInit /\ [][AdjNext]_vars

----------------------------------------------------------------------------
(* calculate_materials, src/sde.py 363-389, one call per behaviour *)

\* A slip that would leave the run count out of base_total.
calculate_materials_total_per_run(blueprint_type_id, me_level, runs, structure_bonus) ==
    LET base_materials == get_manufacturing_materials(blueprint_type_id)
    IN  [k \in 1 .. Len(base_materials) |->
            LET mat == base_materials[k]
                base_total == mat.quantity
                adjusted == apply_me(mat.quantity, me_level, runs, structure_bonus)
            IN  [type_id |-> mat.type_id, base_quantity |-> mat.quantity,
                 base_total |-> base_total, adjusted_quantity |-> adjusted,
                 saved |-> base_total - adjusted]]

\* A slip that would take the recipe's inputs the way resolve does, Formula-kind first.
calculate_materials_any_kind(blueprint_type_id, me_level, runs, structure_bonus) ==
    LET base_materials ==
            IF get_activity_materials(blueprint_type_id, ACTIVITY_REACTIONS) # <<>>
            THEN get_activity_materials(blueprint_type_id, ACTIVITY_REACTIONS)
            ELSE get_manufacturing_materials(blueprint_type_id)
    IN  [k \in 1 .. Len(base_materials) |->
            LET mat == base_materials[k]
                base_total == mat.quantity * runs
                adjusted == apply_me(mat.quantity, me_level, runs, structure_bonus)
            IN  [type_id |-> mat.type_id, base_quantity |-> mat.quantity,
                 base_total |-> base_total, adjusted_quantity |-> adjusted,
                 saved |-> base_total - adjusted]]

calculate_materials(blueprint_type_id, me_level, runs, structure_bonus) ==
    LET base_materials == get_manufacturing_materials(blueprint_type_id)
    IN  [k \in 1 .. Len(base_materials) |->
            LET mat == base_materials[k]
                base_total == mat.quantity * runs
                adjusted == apply_me(mat.quantity, me_level, runs, structure_bonus)
            IN  [type_id |-> mat.type_id, base_quantity |-> mat.quantity,
                 base_total |-> base_total, adjusted_quantity |-> adjusted,
                 saved |-> base_total - adjusted]]

CalcInit ==
    /\ fpTie \in {0, 1}
    /\ adj = NoAdj
    /\ look = NoLook
    /\ catalog \in Catalogs
    /\ calc \in [bp : RootIds, me : MeDomain,
                 runs : (-1) .. MaxRuns, sb : {0, 10, 100}, pc : {"call"}, out : {<<>>}]
    /\ pc = [c \in Callers |-> "off"]
    /\ args = [c \in Callers |-> NoArgs]
    /\ stack = [c \in Callers |-> <<>>]
    /\ cache = [c \in Callers |-> <<>>]
    /\ result = [c \in Callers |-> <<>>]
    /\ lookups = [c \in Callers |-> <<>>]
    /\ failure = [c \in Callers |-> NoFailure]
    /\ ncalls = [c \in Callers |-> 0]
    /\ TreeQuiet

CalculateMaterials ==
    /\ calc.pc = "call"
    /\ calc' = [calc EXCEPT !.pc = "ret",
                            !.out = calculate_materials(calc.bp, calc.me, calc.runs, calc.sb)]
    /\ UNCHANGED <<fpTie, adj, look, resVars, treeVars>>

CalcNext == CalculateMaterials

SpecCalc == CalcInit /\ [][CalcNext]_vars

----------------------------------------------------------------------------
(* The two source lookups on their own, src/sde.py 238-320: one call of
   find_source_for_material and one of get_materials_by_type_ids on the
   same products table *)

\* SDE.find_source_for_material: manufacturing first, then reactions; fetchone()
\* takes the first matching row of the table
find_source_for_material(type_id) ==
    LET Rows(activity_id) ==
            SelectSeq(catalog.prods,
                      LAMBDA r : r.productTypeID = type_id /\ r.activityID = activity_id)
        Source(row, activity_id) ==
            [blueprint_type_id |-> row.typeID, activity_id |-> activity_id,
             quantity_per_run |-> row.quantity]
    IN  IF Rows(ACTIVITY_MANUFACTURING) # <<>>
        THEN Source(Head(Rows(ACTIVITY_MANUFACTURING)), ACTIVITY_MANUFACTURING)
        ELSE IF Rows(ACTIVITY_REACTIONS) # <<>>
             THEN Source(Head(Rows(ACTIVITY_REACTIONS)), ACTIVITY_REACTIONS)
             ELSE NoSource

LookupItems == {1, 2}
LookupRecipes == {11, 12}
LookupQuantities == {1, 2}

ProdRowSpace ==
    { ProdRow(bp, act, prod, q) :
        bp \in LookupRecipes, act \in {ACTIVITY_MANUFACTURING, ACTIVITY_REACTIONS},
        prod \in LookupItems, q \in LookupQuantities }

ProdTables == UNION { [1 .. n -> ProdRowSpace] : n \in 0 .. MaxProdRows }

RequestLists == UNION { [1 .. n -> LookupItems] : n \in 0 .. MaxIds }

LookInit ==
    /\ fpTie = 0
    /\ adj = NoAdj /\ calc = NoCalc
    /\ look \in [item : LookupItems, ids : RequestLists, pc : {"call"},
                  one : {NoSource}, batch : {<<>>}]
    /\ \E prods \in ProdTables : catalog = [mats |-> <<>>, prods |-> prods]
    /\ pc = [c \in Callers |-> "off"]
    /\ args = [c \in Callers |-> NoArgs]
    /\ stack = [c \in Callers |-> <<>>]
    /\ cache = [c \in Callers |-> <<>>]
    /\ result = [c \in Callers |-> <<>>]
    /\ lookups = [c \in Callers |-> <<>>]
    /\ failure = [c \in Callers |-> NoFailure]
    /\ ncalls = [c \in Callers |-> 0]
    /\ TreeQuiet

FindSource ==
    /\ look.pc \in {"call", "batch"}
    /\ look' = [look EXCEPT !.pc = IF look.pc = "call" THEN "one" ELSE "both",
                            !.one = find_source_for_material(look.item)]
    /\ UNCHANGED <<fpTie, adj, calc, resVars, treeVars>>

FindSourcesBatch ==
    /\ look.pc \in {"call", "one"}
    /\ look' = [look EXCEPT !.pc = IF look.pc = "call" THEN "batch" ELSE "both",
                            !.batch = get_materials_by_type_ids(look.ids)]
    /\ UNCHANGED <<fpTie, adj, calc, resVars, treeVars>>

LookNext == FindSource \/ FindSourcesBatch

SpecLookup == LookInit /\ [][LookNext]_vars

----------------------------------------------------------------------------
(* C1: for base > 0 and runs >= 1 the value apply_me returns is the least  *)
(* integer that is at least runs and at least h/100, where h is the raw    *)
(* product rounded to a nearest hundredth (rounding first, ceiling second, *)
(* clamp to runs last); for base <= 0 it returns 0; apply_me(100,10,1,0)   *)
(* is 90 and apply_me(1,10,1,0) is 1.                                      *)

\* h (in hundredths) is a nearest hundredth of the exact product of the call
C1_NearestHundredth(h) ==
    LET p == adj.runs * adj.base * (100 - adj.me) * (100 - adj.sb)
    IN  /\ 100 * h - p <= 50
        /\ p - 100 * h <= 50

\* the two hundredths that enclose the exact product
C1_HundredthsAround ==
    LET p == adj.runs * adj.base * (100 - adj.me) * (100 - adj.sb)
    IN  {p \div 100, (p \div 100) + 1}

C1_AdjustQuantityFormula ==
    adj.pc = "ret" =>
        /\ adj.base <= 0 => adj.out = 0
        /\ (adj.base > 0 /\ adj.runs >= 1) =>
              \E h \in C1_HundredthsAround :
                  /\ C1_NearestHundredth(h)
                  /\ adj.out >= adj.runs
                  /\ 100 * adj.out >= h
                  /\ (adj.out = adj.runs \/ 100 * (adj.out - 1) < h)
        /\ (adj.base = 100 /\ adj.me = 10 /\ adj.runs = 1 /\ adj.sb = 0) => adj.out = 90
        /\ (adj.base = 1 /\ adj.me = 10 /\ adj.runs = 1 /\ adj.sb = 0) => adj.out = 1

\* the rounding step decides the result: 2 * 0.93 * 0.54 = 1.0044 rounds to 1.00
C1_Witness ==
    /\ adj.pc = "ret"
    /\ adj.base = 2 /\ adj.me = 7 /\ adj.runs = 1 /\ adj.sb = 46
    /\ adj.out = 1

----------------------------------------------------------------------------
(* flatten_material_tree, src/sde.py 546-590 *)

\* A slip that would never take a node for one of the override set.
InBuySetNever(node, buy_set) == FALSE

\* line 568: buy_set is not None and node.type_id in buy_set
InBuySet(node, buy_set) == buy_set # NoBuySet /\ node.type_id \in buy_set

\* line 576: node.is_terminal or not node.children
FlattenIsLeaf(node) == node.is_terminal \/ node.children = <<>>

\* A slip that would open a new entry for every node.
AddTotalAppend(totals, node) ==
    Append(totals, [type_id |-> node.type_id, quantity |-> node.quantity_needed])

\* A slip that would store the last quantity instead of adding it.
AddTotalOverwrite(totals, node) ==
    IF \E k \in 1 .. Len(totals) : totals[k].type_id = node.type_id
    THEN [k \in 1 .. Len(totals) |->
             IF totals[k].type_id = node.type_id
             THEN [totals[k] EXCEPT !.quantity = node.quantity_needed]
             ELSE totals[k]]
    ELSE Append(totals, [type_id |-> node.type_id, quantity |-> node.quantity_needed])

\* lines 569-575 and 578-584: totals is a dict, kept here in insertion order
AddTotal(totals, node) ==
    IF \E k \in 1 .. Len(totals) : totals[k].type_id = node.type_id
    THEN [k \in 1 .. Len(totals) |->
             IF totals[k].type_id = node.type_id
             THEN [totals[k] EXCEPT !.quantity = @ + node.quantity_needed]
             ELSE totals[k]]
    ELSE Append(totals, [type_id |-> node.type_id, quantity |-> 0 + node.quantity_needed])

\* lines 565-587: _walk, with the totals it has filled so far
RECURSIVE FlattenWalk(_, _, _)
FlattenWalk(node_list, buy_set, totals) ==
    IF node_list = <<>> THEN totals
    ELSE LET node == Head(node_list)
             after == IF InBuySet(node, buy_set) THEN AddTotal(totals, node)
                      ELSE IF FlattenIsLeaf(node) THEN AddTotal(totals, node)
                      ELSE FlattenWalk(node.children, buy_set, totals)
         IN  FlattenWalk(Tail(node_list), buy_set, after)

\* A slip that would sort without reverse=True.
RECURSIVE SortedAscending(_)
SortedAscending(list) ==
    IF list = <<>> THEN <<>>
    ELSE LET rest == SortedAscending(SubSeq(list, 1, Len(list) - 1))
             x == list[Len(list)]
             before == SelectSeq(rest, LAMBDA e : e.quantity <= x.quantity)
             behind == SelectSeq(rest, LAMBDA e : e.quantity > x.quantity)
         IN  before \o <<x>> \o behind

\* line 590: sorted(totals.values(), key=quantity, reverse=True), a stable sort
SortedQuantityReverse(list) == OrderByQuantityDesc(list)

flatten_material_tree(nodes, buy_set) ==
    SortedQuantityReverse(FlattenWalk(nodes, buy_set, <<>>))

----------------------------------------------------------------------------
(* get_chain_summary, src/sde.py 593-627 *)

\* A slip that would take only the terminal flag for a leaf.
SummaryIsLeafFlagOnly(node) == node.is_terminal

\* line 609: node.is_terminal or not node.children
SummaryIsLeaf(node) == node.is_terminal \/ node.children = <<>>

\* lines 605-619: _walk; acc holds intermediates, terminal_ids and max_depth
RECURSIVE SummaryWalk(_, _)
SummaryWalk(node_list, acc) ==
    IF node_list = <<>> THEN acc
    ELSE LET node == Head(node_list)
             seen == [acc EXCEPT !.max_depth = Max(acc.max_depth, node.depth)]
             after ==
                 IF SummaryIsLeaf(node)
                 THEN [seen EXCEPT !.terminal_ids = @ \cup {node.type_id}]
                 ELSE SummaryWalk(node.children,
                         [seen EXCEPT !.intermediates =
                             Append(@, [type_id |-> node.type_id,
                                        quantity |-> node.quantity_needed,
                                        activity_id |-> node.activity_id,
                                        me_level |-> node.me_level])])
         IN  SummaryWalk(Tail(node_list), after)

\* lines 601-603 and 621-627; terminal_ids is the local set at the return
get_chain_summary(nodes) ==
    LET acc == SummaryWalk(nodes, [intermediates |-> <<>>, terminal_ids |-> {},
                                   max_depth |-> 0])
    IN  [max_depth |-> acc.max_depth,
         total_intermediate_types |-> Len(acc.intermediates),
         total_terminal_types |-> Cardinality(acc.terminal_ids),
         intermediates |-> acc.intermediates,
         terminal_ids |-> acc.terminal_ids]

----------------------------------------------------------------------------
(* The tree consumers on their own: a forest, then flatten or summary *)

TreeItems == {1, 2}
TreeQuantities == {1, 2}
BuySets == {NoBuySet} \cup SUBSET TreeItems

\* a node as resolve_material_chain builds it, with any terminal flag
TreeNode(type_id, quantity, is_terminal, depth, children) ==
    MaterialNode(type_id, quantity,
                 IF is_terminal THEN 0 ELSE ACTIVITY_MANUFACTURING,
                 IF is_terminal THEN 0 ELSE 10 + type_id,
                 IF is_terminal THEN 0 ELSE 10,
                 is_terminal, depth, children)

\* the forests of exactly n nodes whose roots are at depth d
RECURSIVE ForestsOfSize(_, _)
ForestsOfSize(n, d) ==
    IF n = 0 THEN {<<>>}
    ELSE UNION { { <<TreeNode(t, q, term, d, ch)>> \o rest :
                       t \in TreeItems, q \in TreeQuantities, term \in BOOLEAN,
                       ch \in ForestsOfSize(k - 1, d + 1),
                       rest \in ForestsOfSize(n - k, d) } : k \in 1 .. n }

TreeForests == UNION { ForestsOfSize(n, 0) : n \in 0 .. MaxNodes }

TreeInit ==
    /\ fpTie = 0
    /\ AdjQuiet
    /\ ResQuiet
    /\ tree \in TreeForests
    /\ buy = NoBuySet
    /\ flat = <<>>
    /\ summary = NoSummary
    /\ tpc = "tree"

Flatten ==
    /\ tpc = "tree"
    /\ \E b \in BuySets :
          /\ buy' = b
          /\ flat' = flatten_material_tree(tree, b)
    /\ tpc' = "flat"
    /\ UNCHANGED <<fpTie, adjVars, resVars, tree, summary>>

\* the summary of the forest, asked for alone or after its list
Summarize ==
    /\ tpc \in {"tree", "flat"}
    /\ summary' = get_chain_summary(tree)
    /\ tpc' = IF tpc = "tree" THEN "sum" ELSE "both"
    /\ UNCHANGED <<fpTie, adjVars, resVars, tree, buy, flat>>

TreeNext == Flatten \/ Summarize

SpecTree == TreeInit /\ [][TreeNext]_vars

----------------------------------------------------------------------------
(* resolve_material_chain, then get_chain_summary on the forest it returned,
   on a wider set of catalogs *)

\* CatRepeat: blueprint 50 needs X in two rows, with Y between them;
\* blueprint 11 makes 3 X per run from Y; blueprint 60 makes an item from nothing.
CatRepeat ==
    [mats |-> << MatRow(50, 1, 1, 1), MatRow(50, 1, 2, 2), MatRow(50, 1, 1, 3),
                 MatRow(11, 1, 2, 7) >>,
     prods |-> << ProdRow(11, 1, 1, 3), ProdRow(60, 1, 9, 1) >>]

WideCatalogs == Catalogs \cup {CatRepeat}

\* one call on a catalog that may also list an input item in several rows
WideInit ==
    /\ fpTie \in {0, 1}
    /\ AdjQuiet
    /\ catalog \in WideCatalogs
    /\ pc = [c \in Callers |-> IF c = 1 THEN "idle" ELSE "off"]
    /\ args = [c \in Callers |-> NoArgs]
    /\ stack = [c \in Callers |-> <<>>]
    /\ cache = [c \in Callers |-> <<>>]
    /\ result = [c \in Callers |-> <<>>]
    /\ lookups = [c \in Callers |-> <<>>]
    /\ failure = [c \in Callers |-> NoFailure]
    /\ ncalls = [c \in Callers |-> 0]
    /\ TreeQuiet

\* the caller hands the forest its call returned to get_chain_summary
SummarizeResult(c) ==
    /\ pc[c] = "done"
    /\ tpc = "off"
    /\ tree' = result[c]
    /\ summary' = get_chain_summary(result[c])
    /\ tpc' = "sum"
    /\ UNCHANGED <<fpTie, adjVars, resVars, buy, flat>>

WideNext == Next \/ \E c \in Callers : SummarizeResult(c)

SpecWide == WideInit /\ [][WideNext]_vars

----------------------------------------------------------------------------
(* Forests: helpers for statements about a returned forest *)

\* every node of a forest, at any level
RECURSIVE AllNodes(_)
AllNodes(forest) ==
    UNION { {forest[k]} \cup AllNodes(forest[k].children) : k \in 1 .. Len(forest) }

\* every node the running or finished call of c has emitted so far
EmittedNodes(c) ==
    AllNodes(result[c]) \cup
    UNION { AllNodes(stack[c][k].nodes) : k \in 1 .. Len(stack[c]) }

----------------------------------------------------------------------------
(* C2 as stated: no node of a returned forest is deeper than max_depth.    *)

C2_DepthWithinMaxDepth ==
    \A c \in Callers :
        pc[c] = "done" => \A n \in AllNodes(result[c]) : n.depth <= args[c].max_depth

(* C2, amended: no node of a returned forest is deeper than max_depth + 1  *)
(* (the guard fires in the call at depth max_depth + 1 and emits its nodes *)
(* at that depth), for every catalog, cyclic ones included.                *)

C2_DepthWithinMaxDepthPlusOne ==
    \A c \in Callers :
        pc[c] = "done" => \A n \in AllNodes(result[c]) : n.depth <= args[c].max_depth + 1

\* the cyclic catalog resolved with max_depth = 2 has returned a node at depth 3
C2_Witness ==
    /\ pc[1] = "done"
    /\ catalog = CatCycle
    /\ args[1].max_depth = 2
    /\ \E n \in AllNodes(result[1]) : n.depth = 3

----------------------------------------------------------------------------
(* C3: a top-level call terminates, also on a cyclic catalog: no frame is  *)
(* ever entered at a depth above max_depth + 1, and a call that has        *)
(* started eventually returns its forest.                                  *)

C3_RecursionBounded ==
    \A c \in Callers :
        \A k \in 1 .. Len(stack[c]) :
            /\ stack[c][k].depth = k - 1
            /\ stack[c][k].depth <= args[c].max_depth + 1

C3_Terminates ==
    /\ []C3_RecursionBounded
    /\ \A c \in Callers : (pc[c] = "run") ~> (pc[c] = "done")

\* the cyclic catalog: the call is max_depth + 2 frames deep, in the guard's frame
C3_Witness ==
    /\ pc[1] = "run"
    /\ catalog = CatCycle
    /\ Len(stack[1]) = args[1].max_depth + 2
    /\ Top(1).depth = args[1].max_depth + 1

----------------------------------------------------------------------------
(* Statements about one level of a resolve call *)

\* what the catalog's batch lookup says about one item
SourceOf(tid) == get_materials_by_type_ids(<<tid>>)[tid]

\* n is the least number of runs whose yield covers q
IsCeilOfQuotient(n, q, per_run) == n * per_run >= q /\ (n - 1) * per_run < q

----------------------------------------------------------------------------
(* C7: an expanded input with adjusted quantity q whose source yields      *)
(* quantity_per_run units is resolved by a call of the source recipe with  *)
(* ceil(q / quantity_per_run) runs, one level deeper, with efficiency 0    *)
(* for a Formula source and sub_me otherwise; its non-terminal node carries*)
(* q and that efficiency.  End to end: 10 X per run at 2 runs, X yielding  *)
(* 3 and needing 7 Y, sub_me 10: X 20, 7 sub-runs, Y apply_me(7,10,7,0).   *)

C7_FrameFollowsSource(c, k) ==
    LET parent == stack[c][k - 1]
        child == stack[c][k]
        mat == parent.mats[parent.i]
        src == SourceOf(mat.type_id)
    IN  /\ src # NoSource
        /\ child.bp = src.blueprint_type_id
        /\ IsCeilOfQuotient(child.runs, mat.adjusted_quantity, src.quantity_per_run)
        /\ child.me = (IF src.activity_id = ACTIVITY_REACTIONS THEN 0 ELSE args[c].sub_me)
        /\ child.depth = parent.depth + 1

C7_NodeCarriesQuantity(c, f) ==
    \A k \in 1 .. Len(f.nodes) :
        LET n == f.nodes[k]
            src == SourceOf(n.type_id)
        IN  /\ n.type_id = f.mats[k].type_id
            /\ n.quantity_needed = f.mats[k].adjusted_quantity
            /\ ~n.is_terminal =>
                  /\ n.activity_id = src.activity_id
                  /\ n.blueprint_type_id = src.blueprint_type_id
                  /\ n.me_level = (IF src.activity_id = ACTIVITY_REACTIONS
                                   THEN 0 ELSE args[c].sub_me)

C7_IsEndToEndCall(c) ==
    /\ catalog = CatChain
    /\ args[c].blueprint_type_id = 10 /\ args[c].runs = 2 /\ args[c].me_level = 0
    /\ args[c].sub_me = 10 /\ args[c].structure_bonus = 0

C7_SubRunsAndEfficiency ==
    \A c \in Callers :
        /\ \A k \in 2 .. Len(stack[c]) : C7_FrameFollowsSource(c, k)
        /\ \A k \in 1 .. Len(stack[c]) :
              stack[c][k].pc = "loop" => C7_NodeCarriesQuantity(c, stack[c][k])
        /\ (C7_IsEndToEndCall(c) /\ Len(stack[c]) = 2) => stack[c][2].runs = 7
        /\ (C7_IsEndToEndCall(c) /\ pc[c] = "done") =>
              /\ Len(result[c]) = 1
              /\ result[c][1].type_id = 1 /\ result[c][1].quantity_needed = 20
              /\ ~result[c][1].is_terminal /\ result[c][1].me_level = 10
              /\ Len(result[c][1].children) = 1
              /\ result[c][1].children[1].type_id = 2
              /\ result[c][1].children[1].quantity_needed = apply_me(7, 10, 7, 0)
              /\ result[c][1].children[1].quantity_needed = 45

\* the end-to-end call is inside the call for X, which runs 7 times
C7_Witness ==
    /\ C7_IsEndToEndCall(1)
    /\ pc[1] = "run"
    /\ Len(stack[1]) = 2
    /\ stack[1][2].bp = 11 /\ stack[1][2].runs = 7 /\ stack[1][2].me = 10

----------------------------------------------------------------------------
(* C8 as stated: at every level of a resolve call the nodes are the        *)
(* recipe's Formula-kind materials at base * runs when it has any, and its *)
(* Standard-kind materials through apply_me only when it has none.         *)

\* the quantities the claim gives the inputs of recipe bp run `runs` times
C8_ClaimedInputs(bp, me, runs, sb) ==
    LET formula == get_activity_materials(bp, ACTIVITY_REACTIONS)
        standard == get_manufacturing_materials(bp)
    IN  IF formula # <<>>
        THEN [k \in 1 .. Len(formula) |->
                 [type_id |-> formula[k].type_id, q |-> formula[k].quantity * runs]]
        ELSE [k \in 1 .. Len(standard) |->
                 [type_id |-> standard[k].type_id,
                  q |-> apply_me(standard[k].quantity, me, runs, sb)]]

RECURSIVE C8_LevelAsClaimed(_, _, _, _, _)
C8_LevelAsClaimed(nodes, bp, me, runs, sb) ==
    LET inputs == C8_ClaimedInputs(bp, me, runs, sb)
    IN  /\ Len(nodes) = Len(inputs)
        /\ \A k \in 1 .. Len(nodes) :
              /\ nodes[k].type_id = inputs[k].type_id
              /\ nodes[k].quantity_needed = inputs[k].q
              /\ ~nodes[k].is_terminal =>
                    C8_LevelAsClaimed(nodes[k].children, nodes[k].blueprint_type_id,
                        nodes[k].me_level,
                        CeilDiv(nodes[k].quantity_needed,
                                SourceOf(nodes[k].type_id).quantity_per_run),
                        sb)

C8_FormulaInputsNeverAdjusted ==
    \A c \in Callers :
        pc[c] = "done" =>
            C8_LevelAsClaimed(result[c], args[c].blueprint_type_id, args[c].me_level,
                              args[c].runs, args[c].structure_bonus)

----------------------------------------------------------------------------
(* C9 as stated: in a call with resolve_reactions false every input whose  *)
(* source is Formula-kind is a terminal, childless node that carries the   *)
(* source's recipe id and kind, no call of that recipe is made, and every  *)
(* input without source is a terminal node without recipe id, kind and     *)
(* children.                                                               *)

C9_NodeAsClaimed(n) ==
    LET src == SourceOf(n.type_id)
    IN  /\ src = NoSource =>
              /\ n.is_terminal /\ n.children = <<>>
              /\ n.blueprint_type_id = 0 /\ n.activity_id = 0
        /\ (src # NoSource /\ src.activity_id = ACTIVITY_REACTIONS) =>
              /\ n.is_terminal /\ n.children = <<>>
              /\ n.blueprint_type_id = src.blueprint_type_id
              /\ n.activity_id = ACTIVITY_REACTIONS

C9_NoCallOfFormula(c) ==
    \A k \in 2 .. Len(stack[c]) :
        SourceOf(stack[c][k - 1].mats[stack[c][k - 1].i].type_id).activity_id
            # ACTIVITY_REACTIONS

C9_DeclinedFormulaKeepsRecipe ==
    \A c \in Callers :
        (pc[c] \in {"run", "done"} /\ ~args[c].resolve_reactions) =>
            /\ \A n \in EmittedNodes(c) : C9_NodeAsClaimed(n)
            /\ C9_NoCallOfFormula(c)

(* C9, amended: the same, for every input processed at a depth that does   *)
(* not exceed max_depth; the inputs the depth guard emits at depth         *)
(* max_depth + 1 are terminal and childless but carry no recipe id or kind.*)

C9_DeclinedFormulaKeepsRecipeBelowGuard ==
    \A c \in Callers :
        (pc[c] \in {"run", "done"} /\ ~args[c].resolve_reactions) =>
            /\ \A n \in EmittedNodes(c) :
                  /\ n.depth <= args[c].max_depth => C9_NodeAsClaimed(n)
                  /\ n.depth > args[c].max_depth => (n.is_terminal /\ n.children = <<>>)
            /\ C9_NoCallOfFormula(c)

\* blueprint 20 resolved without reactions: F is a terminal node that names formula 15
C9_Witness ==
    /\ pc[1] = "done"
    /\ ~args[1].resolve_reactions
    /\ catalog = CatChain /\ args[1].blueprint_type_id = 20
    /\ \E k \in 1 .. Len(result[1]) :
          /\ result[1][k].type_id = 5 /\ result[1][k].is_terminal
          /\ result[1][k].blueprint_type_id = 15
          /\ result[1][k].activity_id = ACTIVITY_REACTIONS
    /\ \E k \in 1 .. Len(result[1]) :
          /\ result[1][k].type_id = 2 /\ result[1][k].is_terminal
          /\ result[1][k].blueprint_type_id = 0

----------------------------------------------------------------------------
(* Positions of a forest: helpers for statements about the tree consumers *)

\* every position of the forest, as the sequence of child indices leading to it
RECURSIVE PathsOf(_)
PathsOf(forest) ==
    UNION { {<<i>>} \cup { <<i>> \o p : p \in PathsOf(forest[i].children) } :
            i \in 1 .. Len(forest) }

RECURSIVE NodeAt(_, _)
NodeAt(forest, p) ==
    IF Len(p) = 1 THEN forest[p[1]] ELSE NodeAt(forest[p[1]].children, Tail(p))

ProperPrefixes(p) == { SubSeq(p, 1, k) : k \in 1 .. Len(p) - 1 }

\* p comes before q when the forest is read top-down, left to right
ComesBefore(p, q) ==
    \/ p \in ProperPrefixes(q)
    \/ \E k \in 1 .. Len(p) :
          /\ k <= Len(q)
          /\ SubSeq(p, 1, k - 1) = SubSeq(q, 1, k - 1)
          /\ p[k] < q[k]

TerminalOrChildless(n) == n.is_terminal \/ Len(n.children) = 0

\* a node that goes on the list itself: a leaf, or an item of the override set
GoesOnList(n, S) == TerminalOrChildless(n) \/ (S # NoBuySet /\ n.type_id \in S)

\* the positions with no node above them that goes on the list itself
NotBelowListed(forest, S) ==
    { p \in PathsOf(forest) :
        \A a \in ProperPrefixes(p) : ~GoesOnList(NodeAt(forest, a), S) }

\* the positions whose node goes on the list
ListedAt(forest, S) ==
    { p \in NotBelowListed(forest, S) : GoesOnList(NodeAt(forest, p), S) }

RECURSIVE QuantityAt(_, _)
QuantityAt(forest, ps) ==
    IF ps = {} THEN 0
    ELSE LET p == CHOOSE x \in ps : TRUE
         IN  NodeAt(forest, p).quantity_needed + QuantityAt(forest, ps \ {p})

OfItem(forest, ps, item) == { p \in ps : NodeAt(forest, p).type_id = item }

EntriesOf(list, item) == { k \in 1 .. Len(list) : list[k].type_id = item }

----------------------------------------------------------------------------
(* C4: with buy_set = None the quantities of the list add up to the quantities
   of the terminal-or-childless nodes the walk reaches, and each item found
   at one or several such nodes has exactly one entry, holding their sum. *)

C4_FlattenKeepsLeafQuantities ==
    (tpc = "flat" /\ buy = NoBuySet) =>
        LET leaves == ListedAt(tree, NoBuySet) IN
        /\ SumSeq([k \in 1 .. Len(flat) |-> flat[k].quantity])
              = QuantityAt(tree, leaves)
        /\ \A item \in TreeItems :
              LET at == OfItem(tree, leaves, item) IN
              /\ Cardinality(EntriesOf(flat, item)) = IF at = {} THEN 0 ELSE 1
              /\ \A k \in EntriesOf(flat, item) :
                    flat[k].quantity = QuantityAt(tree, at)

\* an item sits at two leaves of different parents and is listed once
C4_Witness ==
    /\ tpc = "flat" /\ buy = NoBuySet
    /\ \E p, q \in ListedAt(tree, NoBuySet) :
          /\ p # q /\ Len(p) # Len(q)
          /\ NodeAt(tree, p).type_id = NodeAt(tree, q).type_id
          /\ \E k \in 1 .. Len(flat) :
                /\ flat[k].type_id = NodeAt(tree, p).type_id
                /\ flat[k].quantity = NodeAt(tree, p).quantity_needed
                                          + NodeAt(tree, q).quantity_needed

----------------------------------------------------------------------------
(* C5 as claimed: with an override set S, every entry of the list whose item
   is in S holds the sum of quantity_needed over all nodes of the tree with
   that item. *)

C5_OverrideSumsAllOccurrences ==
    (tpc = "flat" /\ buy # NoBuySet) =>
        \A k \in 1 .. Len(flat) :
            flat[k].type_id \in buy =>
                flat[k].quantity
                    = QuantityAt(tree, OfItem(tree, PathsOf(tree), flat[k].type_id))

(* C5: with an override set S, every entry of the list whose item is in S
   holds the sum of quantity_needed over the nodes with that item that do not
   lie below a node that goes on the list itself (a node of an item of S, or
   a terminal or childless node); every such node not below another one is
   listed, whatever its children are, and nothing below it is. *)

C5_OverrideSumsReachedOccurrences ==
    (tpc = "flat" /\ buy # NoBuySet) =>
        /\ \A k \in 1 .. Len(flat) :
              flat[k].type_id \in buy =>
                  flat[k].quantity
                      = QuantityAt(tree, OfItem(tree, NotBelowListed(tree, buy),
                                                flat[k].type_id))
        /\ \A p \in NotBelowListed(tree, buy) :
              NodeAt(tree, p).type_id \in buy =>
                  EntriesOf(flat, NodeAt(tree, p).type_id) # {}
        /\ SumSeq([k \in 1 .. Len(flat) |-> flat[k].quantity])
              = QuantityAt(tree, ListedAt(tree, buy))

\* an item of S with children is listed with its own quantity, which its
\* children do not add up to, and occurs once more below another item of S
C5_Witness ==
    /\ tpc = "flat" /\ buy # NoBuySet
    /\ \E p \in PathsOf(tree) \ NotBelowListed(tree, buy) :
          NodeAt(tree, p).type_id \in buy
    /\ \E p \in NotBelowListed(tree, buy) :
          LET n == NodeAt(tree, p) IN
          /\ n.type_id \in buy
          /\ ~TerminalOrChildless(n)
          /\ SumSeq([k \in 1 .. Len(n.children) |-> n.children[k].quantity_needed])
                # n.quantity_needed
          /\ \E k \in 1 .. Len(flat) :
                flat[k].type_id = n.type_id /\ flat[k].quantity = n.quantity_needed

----------------------------------------------------------------------------
(* C6: the list has exactly one entry for each item found at a node that
   goes on the list, the quantities never increase along the list, and of
   two entries with equal quantities the one whose item the walk met first
   comes first. *)

FirstListedAt(forest, S, item) ==
    CHOOSE p \in OfItem(forest, ListedAt(forest, S), item) :
        \A q \in OfItem(forest, ListedAt(forest, S), item) : q = p \/ ComesBefore(p, q)

C6_OneEntryPerItemDescendingStable ==
    (tpc = "flat") =>
        /\ \A item \in TreeItems :
              Cardinality(EntriesOf(flat, item))
                  = IF OfItem(tree, ListedAt(tree, buy), item) = {} THEN 0 ELSE 1
        /\ \A k \in 1 .. Len(flat) : flat[k].type_id \in TreeItems
        /\ \A j, k \in 1 .. Len(flat) :
              j < k =>
                  /\ flat[j].quantity >= flat[k].quantity
                  /\ flat[j].quantity = flat[k].quantity =>
                        ComesBefore(FirstListedAt(tree, buy, flat[j].type_id),
                                    FirstListedAt(tree, buy, flat[k].type_id))

\* two entries of equal quantity, one of them summed from two nodes, with
\* the greater type id first
C6_Witness ==
    /\ tpc = "flat"
    /\ Len(flat) = 2
    /\ flat[1].quantity = flat[2].quantity
    /\ flat[1].type_id > flat[2].type_id
    /\ Cardinality(ListedAt(tree, buy)) = 3

----------------------------------------------------------------------------
(* C10: the summary's terminal set holds exactly the items of the visited
   terminal-or-childless nodes, nothing below such a node is visited, the
   intermediates list has one entry for each visited non-terminal node with
   children, in the order of the walk, and total_terminal_types is the size
   of the terminal set. *)

\* the positions the summary visits: those with no leaf above them
SummaryVisits(forest) == NotBelowListed(forest, NoBuySet)

IntermediateAt(forest) ==
    { p \in SummaryVisits(forest) : ~TerminalOrChildless(NodeAt(forest, p)) }

WalkRank(forest, p) ==
    1 + Cardinality({ q \in IntermediateAt(forest) : ComesBefore(q, p) })

C10_SummaryCountsNodes ==
    (tpc = "sum") =>
        /\ summary.terminal_ids
              = { NodeAt(tree, p).type_id : p \in ListedAt(tree, NoBuySet) }
        /\ summary.total_terminal_types = Cardinality(summary.terminal_ids)
        /\ Len(summary.intermediates) = Cardinality(IntermediateAt(tree))
        /\ summary.total_intermediate_types = Len(summary.intermediates)
        /\ \A p \in IntermediateAt(tree) :
              LET e == summary.intermediates[WalkRank(tree, p)] IN
              /\ e.type_id = NodeAt(tree, p).type_id
              /\ e.quantity = NodeAt(tree, p).quantity_needed
              /\ e.me_level = NodeAt(tree, p).me_level

\* one item is an intermediate at two positions, above a single leaf
C10_Witness ==
    /\ tpc = "sum"
    /\ Len(summary.intermediates) = 2
    /\ summary.intermediates[1].type_id = summary.intermediates[2].type_id
    /\ summary.total_terminal_types = 1
    /\ Cardinality(ListedAt(tree, NoBuySet)) = 1

----------------------------------------------------------------------------
(* C11: for a forest all of whose nodes are terminal, the summary counts no
   intermediate, and its number of terminal items is the length of the list
   flatten returns with buy_set = None. *)

C11_AllTerminal(forest) ==
    \A p \in PathsOf(forest) : NodeAt(forest, p).is_terminal

C11_TerminalForestCounts ==
    (tpc = "both" /\ buy = NoBuySet /\ C11_AllTerminal(tree)) =>
        /\ summary.total_intermediate_types = 0
        /\ summary.total_terminal_types = Len(flat)

\* three terminal nodes of two items: two terminal items, two entries
C11_Witness ==
    /\ tpc = "both" /\ buy = NoBuySet /\ C11_AllTerminal(tree)
    /\ Len(tree) = 3
    /\ tree[1].type_id = tree[3].type_id
    /\ tree[1].type_id # tree[2].type_id
    /\ summary.total_terminal_types = 2
    /\ Len(flat) = 2

----------------------------------------------------------------------------
(* C12: for base >= 0 and runs >= 1, apply_me never returns more for a
   greater efficiency level (0..10) or for a greater structure bonus
   (0..100), the other arguments being the same. *)

C12_MonotoneInEfficiencyAndBonus ==
    (adj.pc = "ret" /\ adj.base >= 0 /\ adj.runs >= 1) =>
        /\ \A e2 \in adj.me .. 10 :
              apply_me(adj.base, e2, adj.runs, adj.sb) <= adj.out
        /\ \A x2 \in adj.sb .. 100 :
              apply_me(adj.base, adj.me, adj.runs, x2) <= adj.out

\* 100 units at efficiency 0 without bonus: 100; 90 at efficiency 10, 50 at bonus 50
C12_Witness ==
    /\ adj.pc = "ret"
    /\ adj.base = 100 /\ adj.me = 0 /\ adj.runs = 1 /\ adj.sb = 0
    /\ adj.out = 100
    /\ apply_me(adj.base, 10, adj.runs, adj.sb) = 90
    /\ apply_me(adj.base, adj.me, adj.runs, 50) = 50

----------------------------------------------------------------------------
(* C13 as stated: in a returned forest no node has a negative quantity,
   and every input of a Standard-kind recipe (one without Formula-kind
   materials) that is executed with R runs has a quantity of at least R. *)

RECURSIVE C13_LevelAtLeastRuns(_, _, _)
C13_LevelAtLeastRuns(nodes, bp, runs) ==
    \A k \in 1 .. Len(nodes) :
        /\ nodes[k].quantity_needed >= 0
        /\ get_activity_materials(bp, ACTIVITY_REACTIONS) = <<>> =>
              nodes[k].quantity_needed >= runs
        /\ ~nodes[k].is_terminal =>
              C13_LevelAtLeastRuns(nodes[k].children, nodes[k].blueprint_type_id,
                  CeilDiv(nodes[k].quantity_needed,
                          SourceOf(nodes[k].type_id).quantity_per_run))

C13_QuantitiesNonNegativeAtLeastRuns ==
    \A c \in Callers :
        pc[c] = "done" =>
            C13_LevelAtLeastRuns(result[c], args[c].blueprint_type_id, args[c].runs)

----------------------------------------------------------------------------
(* C14 as stated: a call whose root blueprint id the catalog does not know
   does not return a normal result (it ends with a not-found error). *)

\* the catalog has a row for the blueprint, as a recipe with inputs or products
C14_KnownToCatalog(bp) ==
    \/ \E k \in 1 .. Len(catalog.mats) : catalog.mats[k].typeID = bp
    \/ \E k \in 1 .. Len(catalog.prods) : catalog.prods[k].typeID = bp

C14_UnknownRootNeverReturns ==
    \A c \in Callers :
        pc[c] = "done" => C14_KnownToCatalog(args[c].blueprint_type_id)

----------------------------------------------------------------------------
(* C15: an input for which the batch lookup of its level has found no
   source (the entry the catalog returns for it is None) is emitted as a
   terminal node without recipe and children; the lookup result has a key
   for every input of the level, and the call does not fail over it. *)

C15_LevelTreatsAbsentAsRaw(f) ==
    /\ \A j \in 1 .. Len(f.mats) : f.mats[j].type_id \in DOMAIN f.pre
    /\ \A j \in 1 .. Len(f.nodes) :
          f.pre[f.mats[j].type_id] = NoSource =>
              /\ f.nodes[j].type_id = f.mats[j].type_id
              /\ f.nodes[j].quantity_needed = f.mats[j].adjusted_quantity
              /\ f.nodes[j].is_terminal
              /\ f.nodes[j].children = <<>>
              /\ f.nodes[j].blueprint_type_id = 0
              /\ f.nodes[j].activity_id = 0

----------------------------------------------------------------------------
(* C16: when a catalog call of a resolve call raises, at any depth, the
   top-level call ends with that very error, no forest is returned, and
   the call takes no further step: no catalog call follows the failure. *)

C16_EndsWithTheError ==
    \A c \in Callers :
        /\ failure[c].raised # "" =>
              /\ pc[c] = "failed"
              /\ failure[c].surfaced = failure[c].raised
              /\ result[c] = <<>>
              /\ stack[c] = <<>>
        /\ pc[c] = "failed" => failure[c].raised \in CatalogErrors

C16_NoStepAfterFailure ==
    \A c \in Callers :
        pc[c] = "failed" =>
            /\ pc'[c] = "failed"
            /\ stack'[c] = stack[c]
            /\ lookups'[c] = lookups[c]
            /\ failure'[c] = failure[c]
            /\ result'[c] = result[c]

C16_FailurePropagates == []C16_EndsWithTheError /\ [][C16_NoStepAfterFailure]_vars

\* the batch lookup of a recursive call has raised after the root's own went well
C16_Witness ==
    /\ pc[1] = "failed"
    /\ Len(lookups[1]) = 2
    /\ cache[1] # <<>>
    /\ failure[1].surfaced = "DatabaseError"
    /\ result[1] = <<>>

----------------------------------------------------------------------------
(* C17 as stated: apply_me returns 0 whenever base <= 0 or runs <= 0, for
   every efficiency level and structure bonus, and never a negative number. *)

C17_NonPositiveInputsGiveZero ==
    adj.pc = "ret" =>
        /\ (adj.base <= 0 \/ adj.runs <= 0) => adj.out = 0
        /\ adj.out >= 0

----------------------------------------------------------------------------
(* C18: whatever calls a caller has made before, a top-level call starts
   with an empty cache (and an empty stack of its own), and the forest it
   returns is the one the same call returns when made alone from a fresh
   state, which depends on the catalog and the arguments only. *)

\* the forest of a call made alone: every item looked up in the catalog itself
RECURSIVE ResolveAlone(_, _, _, _, _)
ResolveAlone(bp, me, runs, depth, a) ==
    LET f == NewFrame(bp, me, runs, depth)
        mats == AdjustedMats(f, a.structure_bonus)
        NodeOf(mat) ==
            LET src == SourceOf(mat.type_id)
            IN  IF src = NoSource THEN TerminalNode(mat, depth)
                ELSE IF src.activity_id = ACTIVITY_REACTIONS /\ ~a.resolve_reactions
                THEN DeclinedReactionNode(mat, src, depth)
                ELSE MaterialNode(mat.type_id, mat.adjusted_quantity, src.activity_id,
                         src.blueprint_type_id,
                         IF src.activity_id = ACTIVITY_REACTIONS THEN 0 ELSE a.sub_me,
                         FALSE, depth,
                         ResolveAlone(src.blueprint_type_id,
                             IF src.activity_id = ACTIVITY_REACTIONS THEN 0 ELSE a.sub_me,
                             CeilDiv(mat.adjusted_quantity, src.quantity_per_run),
                             depth + 1, a))
    IN  IF depth > a.max_depth THEN GuardNodes(f, a.structure_bonus)
        ELSE [k \in 1 .. Len(mats) |-> NodeOf(mats[k])]

C18_ResultAsAlone ==
    \A c \in Callers :
        pc[c] = "done" =>
            result[c] = ResolveAlone(args[c].blueprint_type_id, args[c].me_level,
                                         args[c].runs, 0, args[c])

C18_StartsFresh ==
    \A c \in Callers :
        (pc[c] # "run" /\ pc'[c] = "run") =>
            /\ cache'[c] = <<>>
            /\ lookups'[c] = <<>>
            /\ Len(stack'[c]) = 1 /\ stack'[c][1].nodes = <<>>

C18_CallsAreIndependent == []C18_ResultAsAlone /\ [][C18_StartsFresh]_vars

\* a second call has returned a forest with an expanded node; its cache is its own
C18_Witness ==
    /\ ncalls[1] = 2
    /\ pc[1] = "done"
    /\ \E k \in 1 .. Len(result[1]) : result[1][k].children # <<>>
    /\ cache[1] # <<>>
    /\ DOMAIN cache[1] \subseteq UNION { {l[k] : k \in 1 .. Len(l)} :
                                          l \in {lookups[1][j] : j \in 1 .. Len(lookups[1])} }

----------------------------------------------------------------------------
(* C19: two top-level calls that run at the same time on the same catalog,
   interleaved in any way, each return the forest the same call returns
   alone; each cache holds only what its own call has looked up, and a step
   of one call leaves the other call's cache and frames as they are. *)

\* the items c's call has handed to the batch lookup so far
C19_LookedUpBy(c) ==
    UNION { {lookups[c][j][k] : k \in 1 .. Len(lookups[c][j])} :
            j \in 1 .. Len(lookups[c]) }

C19_OwnForestOwnCache ==
    \A c \in Callers :
        /\ pc[c] = "done" =>
              result[c] = ResolveAlone(args[c].blueprint_type_id, args[c].me_level,
                                       args[c].runs, 0, args[c])
        /\ DOMAIN cache[c] \subseteq C19_LookedUpBy(c)
        /\ \A tid \in DOMAIN cache[c] : cache[c][tid] = SourceOf(tid)

C19_StepOfOneLeavesOther ==
    \A c, d \in Callers :
        (c # d /\ (stack'[c] # stack[c] \/ cache'[c] # cache[c])) =>
            /\ cache'[d] = cache[d]
            /\ stack'[d] = stack[d]
            /\ result'[d] = result[d]

C19_ConcurrentCallsIndependent ==
    []C19_OwnForestOwnCache /\ [][C19_StepOfOneLeavesOther]_vars

\* both calls are in progress with different arguments, each with a cache of
\* its own that the other does not have
C19_Witness ==
    /\ pc[1] = "run" /\ pc[2] = "run"
    /\ args[1].blueprint_type_id # args[2].blueprint_type_id
    /\ args[1].me_level # args[2].me_level
    /\ cache[1] # <<>> /\ cache[2] # <<>>
    /\ DOMAIN cache[1] \cap DOMAIN cache[2] = {}
    /\ Len(stack[1]) = 2 /\ Len(stack[2]) = 2

----------------------------------------------------------------------------
(* C20: calculate_materials returns one entry for each Standard-kind
   material row of the recipe, in the order the catalog returns them
   (greater quantities first), with base_total = base * runs,
   adjusted_quantity = apply_me(base, me, runs, bonus) and
   saved = base_total - adjusted_quantity; it enters no resolve frame and
   hands nothing to the source lookup. *)

\* the recipe's Standard-kind rows, as the table holds them
C20_StandardRows ==
    SelectSeq(catalog.mats,
              LAMBDA r : r.typeID = calc.bp /\ r.activityID = ACTIVITY_MANUFACTURING)

\* the place of row j in the returned order: behind every greater quantity
C20_PlaceOf(rows, j) ==
    1 + Cardinality({ i \in 1 .. Len(rows) :
                        \/ rows[i].quantity > rows[j].quantity
                        \/ rows[i].quantity = rows[j].quantity /\ i < j })

C20_EntriesOfImmediateInputs ==
    calc.pc = "ret" =>
        LET rows == C20_StandardRows IN
        /\ Len(calc.out) = Len(rows)
        /\ \A j \in 1 .. Len(rows) :
              LET e == calc.out[C20_PlaceOf(rows, j)] IN
              /\ e.type_id = rows[j].materialTypeID
              /\ e.base_quantity = rows[j].quantity
              /\ e.base_total = rows[j].quantity * calc.runs
              /\ e.adjusted_quantity = apply_me(rows[j].quantity, calc.me, calc.runs, calc.sb)
              /\ e.saved = e.base_total - e.adjusted_quantity

C20_NoResolveNoLookup ==
    calc' # calc => UNCHANGED <<stack, lookups, cache, result, pc>>

C20_CalculateMaterialsIsFlat ==
    []C20_EntriesOfImmediateInputs /\ [][C20_NoResolveNoLookup]_vars

\* blueprint 20 of CatChain at 3 runs, efficiency 10: F 15 -> 14, Y 3 -> 3; F
\* has a source, which is not followed
C20_Witness ==
    /\ calc.pc = "ret"
    /\ catalog = CatChain
    /\ calc.bp = 20 /\ calc.me = 10 /\ calc.runs = 3 /\ calc.sb = 0
    /\ Len(calc.out) = 2
    /\ calc.out[1].type_id = 5 /\ calc.out[1].base_total = 15
    /\ calc.out[1].adjusted_quantity = 14 /\ calc.out[1].saved = 1
    /\ calc.out[2].type_id = 2 /\ calc.out[2].saved = 0
    /\ SourceOf(5) # NoSource

----------------------------------------------------------------------------
(* C21: for every forest, the summary's total_intermediate_types is the
   number of distinct item identifiers among the intermediate nodes (the
   visited non-terminal nodes with children). *)

C21_IntermediateItems(forest) ==
    { NodeAt(forest, p).type_id : p \in IntermediateAt(forest) }

C21_IntermediateCountIsDistinct ==
    (tpc = "sum") =>
        summary.total_intermediate_types = Cardinality(C21_IntermediateItems(tree))

----------------------------------------------------------------------------
(* C22: for an item that is the product of both a Standard-kind
   (manufacturing) row and a Formula-kind (reaction) row, both lookups return
   a Standard-kind source; either lookup returns a Formula-kind source only
   for an item that has no Standard-kind row. *)

C22_HasRow(type_id, activity_id) ==
    \E i \in 1 .. Len(catalog.prods) :
        /\ catalog.prods[i].productTypeID = type_id
        /\ catalog.prods[i].activityID = activity_id

C22_SingleStandardFirst ==
    look.pc \in {"one", "both"} =>
        /\ C22_HasRow(look.item, ACTIVITY_MANUFACTURING)
              => look.one.activity_id = ACTIVITY_MANUFACTURING
        /\ look.one.activity_id = ACTIVITY_REACTIONS
              => ~C22_HasRow(look.item, ACTIVITY_MANUFACTURING)

C22_BatchStandardFirst ==
    look.pc \in {"batch", "both"} =>
        \A tid \in DOMAIN look.batch :
            /\ C22_HasRow(tid, ACTIVITY_MANUFACTURING)
                  => look.batch[tid].activity_id = ACTIVITY_MANUFACTURING
            /\ look.batch[tid].activity_id = ACTIVITY_REACTIONS
                  => ~C22_HasRow(tid, ACTIVITY_MANUFACTURING)

C22_StandardTakesPrecedence == C22_SingleStandardFirst /\ C22_BatchStandardFirst

\* the item is made by a reaction row placed before a manufacturing row, and
\* both lookups have answered for it
C22_Witness ==
    /\ look.pc = "both"
    /\ Len(catalog.prods) = 2
    /\ catalog.prods[1].productTypeID = look.item
    /\ catalog.prods[1].activityID = ACTIVITY_REACTIONS
    /\ catalog.prods[2].productTypeID = look.item
    /\ catalog.prods[2].activityID = ACTIVITY_MANUFACTURING
    /\ look.item \in DOMAIN look.batch
    /\ look.one.activity_id = ACTIVITY_MANUFACTURING
    /\ look.batch[look.item].activity_id = ACTIVITY_MANUFACTURING

----------------------------------------------------------------------------
(* C25: the batch lookup answers as the single lookup does: the dict
   get_materials_by_type_ids returns has exactly the requested ids as keys,
   and for a requested item its value is the value find_source_for_material
   returns for that item (same recipe id, kind and quantity per run, or no
   source for both), on every products table, one with several rows of one
   kind for the same item included. *)

C25_BatchEqualsSingle ==
    look.pc = "both" =>
        /\ DOMAIN look.batch = { look.ids[i] : i \in 1 .. Len(look.ids) }
        /\ look.item \in DOMAIN look.batch => look.batch[look.item] = look.one

----------------------------------------------------------------------------
(* C23: when the depth guard fires for a recipe, the call returns that
   recipe's own inputs as terminal, childless nodes at the call's depth, the
   same items in the same order and with the same quantities as the normal
   step computes for the recipe (its Formula-kind materials at base * runs if
   it has any, otherwise its Standard-kind materials through apply_me), and
   it hands nothing to the source lookup and enters no further call. *)

\* the guard is about to fire in c's innermost call
C23_GuardFires(c) ==
    /\ pc[c] = "run"
    /\ Top(c).pc = "enter"
    /\ DepthExceeded(Top(c).depth, args[c].max_depth)

\* the nodes the innermost call of c hands back in this step
C23_Returned(c) ==
    IF Len(stack[c]) = 1 THEN result'[c]
    ELSE LET back == stack'[c][Len(stack'[c])]
         IN  back.nodes[Len(back.nodes)].children

C23_GuardStep ==
    \A c \in Callers :
        (C23_GuardFires(c) /\ stack'[c] # stack[c]) =>
            LET f == Top(c)
                inputs == AdjustedMats(f, args[c].structure_bonus)
                nodes == C23_Returned(c)
            IN  /\ Len(stack'[c]) = Len(stack[c]) - 1
                /\ lookups'[c] = lookups[c]
                /\ Len(nodes) = Len(inputs)
                /\ \A k \in 1 .. Len(nodes) :
                      /\ k <= Len(inputs)
                      /\ nodes[k].type_id = inputs[k].type_id
                      /\ nodes[k].quantity_needed = inputs[k].adjusted_quantity
                      /\ nodes[k].is_terminal
                      /\ nodes[k].children = <<>>
                      /\ nodes[k].depth = f.depth

C23_GuardEmitsTheRecipesInputs == [][C23_GuardStep]_vars

----------------------------------------------------------------------------
(* C24: within one top-level call the catalog is asked for the source of an
   item at most once: no item is named twice in the type_ids lists handed to
   get_materials_by_type_ids, and a list never names an item that is already
   in the call's cache. *)

C24_AskedAtMostOnce ==
    \A c \in Callers :
        \A i, j \in 1 .. Len(lookups[c]) :
            \A k \in 1 .. Len(lookups[c][i]) :
                \A l \in 1 .. Len(lookups[c][j]) :
                    lookups[c][i][k] = lookups[c][j][l] => (i = j /\ k = l)

C24_CachedItemNotAsked ==
    \A c \in Callers :
        (pc[c] = "run" /\ Len(lookups'[c]) = Len(lookups[c]) + 1) =>
            LET type_ids == lookups'[c][Len(lookups'[c])]
            IN  \A k \in 1 .. Len(type_ids) : type_ids[k] \notin DOMAIN cache[c]

C24_EachItemLookedUpOnce == []C24_AskedAtMostOnce /\ [][C24_CachedItemNotAsked]_vars

----------------------------------------------------------------------------
(* C26: at every level the depth guard does not cut off, the nodes emitted
   are one per material row the catalog returns for the level's recipe (its
   Formula-kind rows if it has any, otherwise its Standard-kind rows), in
   the order the catalog returns them, greater quantities first; terminal
   and non-terminal nodes keep that order among themselves and a repeated
   input item has a node for each of its rows. *)

\* the rows of the recipe the normal step reads, as the table holds them
C26_InputRows(bp) ==
    LET OfKind(activity_id) ==
            SelectSeq(catalog.mats,
                      LAMBDA r : r.typeID = bp /\ r.activityID = activity_id)
    IN  IF OfKind(ACTIVITY_REACTIONS) # <<>> THEN OfKind(ACTIVITY_REACTIONS)
        ELSE OfKind(ACTIVITY_MANUFACTURING)

\* nodes[k] is for the row the query returns in place k, up to place n
C26_OneNodePerRow(nodes, bp, n) ==
    LET rows == C26_InputRows(bp) IN
    /\ Len(nodes) = n
    /\ n <= Len(rows)
    /\ \A j \in 1 .. Len(rows) :
          C20_PlaceOf(rows, j) <= n =>
              nodes[C20_PlaceOf(rows, j)].type_id = rows[j].materialTypeID

\* in a returned forest: the top level and the children of every node whose
\* recipe was resolved within max_depth
C26_ReturnedLevels ==
    \A c \in Callers :
        pc[c] = "done" =>
            /\ C26_OneNodePerRow(result[c], args[c].blueprint_type_id,
                                 Len(C26_InputRows(args[c].blueprint_type_id)))
            /\ \A p \in PathsOf(result[c]) :
                  LET n == NodeAt(result[c], p) IN
                  (~n.is_terminal /\ n.depth < args[c].max_depth) =>
                      C26_OneNodePerRow(n.children, n.blueprint_type_id,
                                        Len(C26_InputRows(n.blueprint_type_id)))

\* in a level in progress: the nodes so far are those of the first rows
C26_LevelsInProgress ==
    \A c \in Callers :
        \A k \in 1 .. Len(stack[c]) :
            stack[c][k].pc = "loop" =>
                C26_OneNodePerRow(stack[c][k].nodes, stack[c][k].bp, stack[c][k].i - 1)

C26_NodesFollowCatalogRows == C26_ReturnedLevels /\ C26_LevelsInProgress

\* blueprint 50 of CatRepeat: X (3 per run, expanded), Y (raw), X again (1 per run)
C26_Witness ==
    /\ pc[1] = "done"
    /\ catalog = CatRepeat
    /\ args[1].blueprint_type_id = 50
    /\ Len(result[1]) = 3
    /\ result[1][1].type_id = 1 /\ ~result[1][1].is_terminal
    /\ result[1][2].type_id = 2 /\ result[1][2].is_terminal
    /\ result[1][3].type_id = 1 /\ ~result[1][3].is_terminal
    /\ result[1][1].quantity_needed > result[1][3].quantity_needed

----------------------------------------------------------------------------
(* C27 as stated: in a forest a top-level call returns, the root recipe is
   not a node: every top-level node is an input of the root recipe and has
   depth 0, every child's depth is its parent's depth plus 1, and the
   summary's max_depth is the length of the longest root-to-leaf path
   minus 1. *)

\* the number of nodes on the longest path from a top-level node down
C27_LongestPath(forest) ==
    IF forest = <<>> THEN 0
    ELSE CHOOSE n \in { Len(p) : p \in PathsOf(forest) } :
            \A p \in PathsOf(forest) : Len(p) <= n

C27_IsInputOf(type_id, bp) ==
    \E k \in 1 .. Len(catalog.mats) :
        catalog.mats[k].typeID = bp /\ catalog.mats[k].materialTypeID = type_id

C27_DepthsCountFromInputs ==
    \A c \in Callers :
        pc[c] = "done" =>
            /\ \A k \in 1 .. Len(result[c]) :
                  /\ C27_IsInputOf(result[c][k].type_id, args[c].blueprint_type_id)
                  /\ result[c][k].depth = 0
            /\ \A p \in PathsOf(result[c]) :
                  \A k \in 1 .. Len(NodeAt(result[c], p).children) :
                      NodeAt(result[c], p).children[k].depth
                          = NodeAt(result[c], p).depth + 1

C27_MaxDepthIsLongestPathLessOne ==
    /\ C27_DepthsCountFromInputs
    /\ tpc = "sum" => summary.max_depth = C27_LongestPath(tree) - 1

(* C27 amended: the same, with max_depth = longest path - 1 for a forest
   that has a node, and max_depth = 0 for the empty forest (a root recipe
   without inputs). *)
C27_MaxDepthOfNonEmptyForest ==
    /\ C27_DepthsCountFromInputs
    /\ (tpc = "sum" /\ tree # <<>>) => summary.max_depth = C27_LongestPath(tree) - 1
    /\ (tpc = "sum" /\ tree = <<>>) => summary.max_depth = 0

\* CatChain, blueprint 20 within max_depth 2: F, below it X and R, below X its Y
C27_Witness ==
    /\ tpc = "sum"
    /\ pc[1] = "done"
    /\ tree = result[1]
    /\ catalog = CatChain /\ args[1].blueprint_type_id = 20
    /\ args[1].max_depth = 2
    /\ C27_LongestPath(tree) = 3
    /\ summary.max_depth = 2
    /\ tree[1].depth = 0

----------------------------------------------------------------------------
(* C28: in a returned forest the kind recorded on a non-terminal node says
   how its children were computed: the children are the inputs of the
   node's recipe of that kind, with quantity apply_me(base, the node's
   efficiency, sub_runs, bonus) under a Standard-kind node and
   base * sub_runs under a Formula-kind node, where sub_runs is the number
   of runs that covers the node's quantity; also when the recipe id has
   materials of both kinds. *)

\* the material rows of the node's recipe of the kind the node records
C28_RowsOfRecordedKind(n) ==
    SelectSeq(catalog.mats,
              LAMBDA r : r.typeID = n.blueprint_type_id /\ r.activityID = n.activity_id)

C28_ChildrenOfRecordedKind(n, structure_bonus) ==
    LET rows == C28_RowsOfRecordedKind(n)
        sub_runs == CeilDiv(n.quantity_needed, SourceOf(n.type_id).quantity_per_run)
    IN  /\ Len(n.children) = Len(rows)
        /\ \A j \in 1 .. Len(rows) :
              LET child == n.children[C20_PlaceOf(rows, j)] IN
              /\ child.type_id = rows[j].materialTypeID
              /\ child.quantity_needed =
                    IF n.activity_id = ACTIVITY_MANUFACTURING
                    THEN apply_me(rows[j].quantity, n.me_level, sub_runs, structure_bonus)
                    ELSE rows[j].quantity * sub_runs

C28_RecordedKindMatchesChildren ==
    \A c \in Callers :
        pc[c] = "done" =>
            \A p \in PathsOf(result[c]) :
                ~NodeAt(result[c], p).is_terminal =>
                    C28_ChildrenOfRecordedKind(NodeAt(result[c], p),
                                               args[c].structure_bonus)

----------------------------------------------------------------------------
(* C29: the cache never changes the result: the forest a call returns is the
   forest of a resolver that has no cache and takes the source of each input
   from the batch lookup made at that input's level; at every level the
   source the cache holds for an item is the one the level's own batch
   lookup returned for it. *)

RECURSIVE C29_ResolveWithoutCache(_, _, _, _, _)
C29_ResolveWithoutCache(bp, me, runs, depth, a) ==
    LET f == NewFrame(bp, me, runs, depth)
        mats == AdjustedMats(f, a.structure_bonus)
        pre == get_materials_by_type_ids([k \in 1 .. Len(mats) |-> mats[k].type_id])
        NodeOf(mat) ==
            LET source == pre[mat.type_id]
                effective_me == IF source.activity_id = ACTIVITY_REACTIONS
                                THEN 0 ELSE a.sub_me
            IN  IF source = NoSource
                THEN MaterialNode(mat.type_id, mat.adjusted_quantity, 0, 0, 0,
                                  TRUE, depth, <<>>)
                ELSE IF source.activity_id = ACTIVITY_REACTIONS /\ ~a.resolve_reactions
                THEN MaterialNode(mat.type_id, mat.adjusted_quantity, ACTIVITY_REACTIONS,
                                  source.blueprint_type_id, 0, TRUE, depth, <<>>)
                ELSE MaterialNode(mat.type_id, mat.adjusted_quantity, source.activity_id,
                         source.blueprint_type_id, effective_me, FALSE, depth,
                         C29_ResolveWithoutCache(source.blueprint_type_id, effective_me,
                             CeilDiv(mat.adjusted_quantity, source.quantity_per_run),
                             depth + 1, a))
    IN  IF depth > a.max_depth THEN GuardNodes(f, a.structure_bonus)
        ELSE [k \in 1 .. Len(mats) |-> NodeOf(mats[k])]

C29_ForestAsWithoutCache ==
    \A c \in Callers :
        pc[c] = "done" =>
            result[c] = C29_ResolveWithoutCache(args[c].blueprint_type_id,
                            args[c].me_level, args[c].runs, 0, args[c])

C29_CacheAgreesWithLevelLookup ==
    \A c \in Callers :
        \A k \in 1 .. Len(stack[c]) :
            stack[c][k].pc = "loop" =>
                \A tid \in DOMAIN cache[c] \cap DOMAIN stack[c][k].pre :
                    cache[c][tid] = stack[c][k].pre[tid]

C29_CacheNeverChangesResult == C29_ForestAsWithoutCache /\ C29_CacheAgreesWithLevelLookup

\* the loop is at an input whose source is taken from the cache, filled at an
\* earlier position, and the input is expanded
C29_Witness ==
    /\ pc[1] = "run"
    /\ Top(1).pc = "loop"
    /\ Top(1).i <= Len(Top(1).mats)
    /\ Top(1).mats[Top(1).i].type_id \in DOMAIN cache[1]
    /\ cache[1][Top(1).mats[Top(1).i].type_id] # NoSource

----------------------------------------------------------------------------
(* C30: for runs >= 1, efficiency 0..10 and bonus 0..100, every entry of
   calculate_materials with base >= 1 has adjusted_quantity <= base_total
   and saved >= 0; with efficiency 0 and bonus 0 its adjusted_quantity is
   base_total and its saved is 0. *)

C30_InDomain ==
    /\ calc.pc = "ret"
    /\ calc.runs >= 1
    /\ calc.me \in 0 .. 10
    /\ calc.sb \in 0 .. 100

C30_NeverMoreThanBaseTotal ==
    C30_InDomain =>
        \A k \in 1 .. Len(calc.out) :
            calc.out[k].base_quantity >= 1 =>
                /\ calc.out[k].adjusted_quantity <= calc.out[k].base_total
                /\ calc.out[k].saved >= 0
                /\ (calc.me = 0 /\ calc.sb = 0) =>
                      /\ calc.out[k].adjusted_quantity = calc.out[k].base_total
                      /\ calc.out[k].saved = 0

\* blueprint 10 of CatChain at 3 runs, efficiency 10, bonus 10: 30 -> 25
C30_Witness ==
    /\ calc.pc = "ret"
    /\ catalog = CatChain
    /\ calc.bp = 10 /\ calc.me = 10 /\ calc.runs = 3 /\ calc.sb = 10
    /\ Len(calc.out) = 1
    /\ calc.out[1].base_quantity = 10
    /\ calc.out[1].base_total = 30
    /\ calc.out[1].adjusted_quantity = 25
    /\ calc.out[1].saved = 5

====
